---- MODULE Spec2Model ----
(***************************************************************************)
(* The useTasks data hook of task-glitch (src/src/components/TaskForm.tsx, *)
(* lines 223-428): the task list, the one-slot undo buffer, the persisted  *)
(* slot in localStorage and the initial load, as a state machine.          *)
(***************************************************************************)
EXTENDS Integers, Sequences, FiniteSets, TLC

(***************************************************************************)
(* Bounds of the model.                                                    *)
(***************************************************************************)
\* the handlers are called, and the clock read anew, at most this many
\* times in all
MaxCalls == 3

(***************************************************************************)
(* JavaScript values.  Every value is a record [t, v]: t is its kind and v *)
(* its payload (0 when the kind has none).                                 *)
(***************************************************************************)
Undef == [t |-> "undefined", v |-> 0]
JNull == [t |-> "null", v |-> 0]
NaN == [t |-> "NaN", v |-> 0]
Num(n) == [t |-> "number", v |-> n]
\* a string holding a decimal number, e.g. "5"
NumStr(n) == [t |-> "numstr", v |-> n]
\* a non-empty string that is neither a number nor a date
BadStr == [t |-> "string", v |-> 0]
\* the string Date.prototype.toISOString() gives for the instant ms
Iso(ms) == [t |-> "iso", v |-> ms]
\* a date string in another format, which Date parses to the instant ms
DateStr(ms) == [t |-> "datestr", v |-> ms]
\* a task id
Id(n) == [t |-> "id", v |-> n]

\* Number(x)
ToNumber(x) ==
    CASE x.t = "number" -> x
      [] x.t = "numstr" -> Num(x.v)
      [] x.t = "null" -> Num(0)
      [] OTHER -> NaN

\* the truthiness of x, as `x ? .. : ..`, `x || ..` and `!x` test it
Truthy(x) ==
    CASE x.t = "number" -> x.v # 0
      [] x.t \in {"undefined", "null", "NaN"} -> FALSE
      [] OTHER -> TRUE

\* x <= 0: false when either side converts to NaN
LeqZero(x) == ToNumber(x).t = "number" /\ ToNumber(x).v <= 0

\* x > 0
GtZero(x) == ToNumber(x).t = "number" /\ ToNumber(x).v > 0

\* a ?? b
Coalesce(a, b) == IF a.t \in {"undefined", "null"} THEN b ELSE a

\* a || b
OrElse(a, b) == IF Truthy(a) THEN a ELSE b

(***************************************************************************)
(* Dates: new Date(x) is [valid, ms].                                      *)
(***************************************************************************)
DayMs == 24 * 3600 * 1000

InvalidDate == [valid |-> FALSE, ms |-> 0]
DateOfMs(ms) == [valid |-> TRUE, ms |-> ms]

\* new Date(x)
NewDate(x) ==
    CASE x.t \in {"iso", "datestr", "number"} -> DateOfMs(x.v)
      [] x.t = "null" -> DateOfMs(0)
      [] OTHER -> InvalidDate

(***************************************************************************)
(* Tasks.                                                                  *)
(***************************************************************************)
\* a task (or raw record) with the given fields; a field that is absent
\* reads as undefined
Task(id, revenue, timeTaken, status, createdAt, completedAt) ==
    [id |-> id, title |-> "A", revenue |-> revenue, timeTaken |-> timeTaken,
     priority |-> "Medium", status |-> status, notes |-> Undef,
     createdAt |-> createdAt, completedAt |-> completedAt]

\* the value of lastDeleted when the buffer is empty
Null == [id |-> JNull]


(***************************************************************************)
(* normalizeTasks.  The input is a parsed JSON value [isArray, items]; the *)
(* result is [threw, list]: created.toISOString() raises a RangeError on   *)
(* an invalid Date, and the exception leaves normalizeTasks.               *)
(***************************************************************************)
\* new Date(t.createdAt), or the synthesized date of the record at idx
CreatedDate(t, idx, nowMs) ==
    IF Truthy(t.createdAt)
    THEN NewDate(t.createdAt)
    ELSE DateOfMs(nowMs - (idx + 1) * DayMs)

\* the record normalizeTasks builds from the raw record t at index idx
\* (0-based), when created is a valid Date
NormalizeOne(t, idx, nowMs) ==
    LET created == CreatedDate(t, idx, nowMs)
        completed ==
            OrElse(t.completedAt,
                   IF t.status = "Done" THEN Iso(created.ms + DayMs) ELSE Undef)
    IN  [id |-> t.id,
         title |-> t.title,
         revenue |-> Coalesce(ToNumber(t.revenue), Num(0)),
         timeTaken |->
             IF GtZero(ToNumber(t.timeTaken)) THEN ToNumber(t.timeTaken) ELSE Num(1),
         priority |-> t.priority,
         status |-> t.status,
         notes |-> t.notes,
         createdAt |-> Iso(created.ms),
         completedAt |-> completed]

normalizeTasks(input, nowMs) ==
    LET items == IF input.isArray THEN input.items ELSE <<>>
    IN  IF \E i \in 1..Len(items) : ~CreatedDate(items[i], i - 1, nowMs).valid
        THEN [threw |-> TRUE, list |-> <<>>]
        ELSE [threw |-> FALSE,
              list |-> [i \in 1..Len(items) |-> NormalizeOne(items[i], i - 1, nowMs)]]

(***************************************************************************)
(* The persisted slot.  localStorage holds a string under STORAGE_KEY: no  *)
(* entry, a text JSON.parse rejects, or the JSON text of a value           *)
(* [isArray, items].                                                       *)
(***************************************************************************)
JsonArray(items) == [kind |-> "json", isArray |-> TRUE, items |-> items]
JsonObject == [kind |-> "json", isArray |-> FALSE, items |-> <<>>]
Absent == [kind |-> "absent", isArray |-> FALSE, items |-> <<>>]
Unparseable == [kind |-> "text", isArray |-> FALSE, items |-> <<>>]

\* what JSON.stringify writes for a field value: NaN becomes null, and a
\* key holding undefined is left out (it reads back as undefined)
JsonValue(x) == IF x.t = "NaN" THEN JNull ELSE x

JsonRecord(t) ==
    [id |-> JsonValue(t.id), title |-> t.title, revenue |-> JsonValue(t.revenue),
     timeTaken |-> JsonValue(t.timeTaken), priority |-> t.priority,
     status |-> t.status, notes |-> JsonValue(t.notes),
     createdAt |-> JsonValue(t.createdAt), completedAt |-> JsonValue(t.completedAt)]

\* JSON.stringify(tasksToSave)
Stringify(list) == JsonArray([i \in 1..Len(list) |-> JsonRecord(list[i])])

\* a save whose failed write leaves the slot empty
saveOrClear(slot, tasksToSave, writeOk) ==
    IF writeOk THEN Stringify(tasksToSave) ELSE Absent

\* a save that writes the list without its last record
savePartial(slot, tasksToSave, writeOk) ==
    IF writeOk /\ Len(tasksToSave) > 0
    THEN Stringify(SubSeq(tasksToSave, 1, Len(tasksToSave) - 1))
    ELSE slot

\* the slot after saveToLocalStorage(tasksToSave): setItem throws when the
\* storage takes no write (quota reached, storage disabled), and the
\* exception is caught and logged
saveToLocalStorage(slot, tasksToSave, writeOk) ==
    IF writeOk THEN Stringify(tasksToSave) ELSE slot

(***************************************************************************)
(* generateSalesTasks(count), of @/utils/seed: an external collaborator    *)
(* giving count well-formed tasks with distinct ids.                       *)
(***************************************************************************)
GenCount == 50

generateSalesTasks(count, nowMs) ==
    [i \in 1..count |->
        Task(Id(i), Num(100), Num(2), IF i % 2 = 0 THEN "Done" ELSE "Todo",
             Iso(nowMs - i * 3600 * 1000),
             IF i % 2 = 0 THEN Iso(nowMs - i * 3600 * 1000 + 1000) ELSE Undef)]


(***************************************************************************)
(* State of useTasks.                                                      *)
(***************************************************************************)
VARIABLES
    storage,      \* localStorage under STORAGE_KEY
    writable,     \* whether localStorage.setItem succeeds in this session
    last,         \* the operation that took the last step, with what it was
                  \* called on
    tasks,        \* useState<Task[]>([])
    lastDeleted,  \* useState<Task | null>(null)
    loading,      \* useState(true)
    error,        \* useState<string | null>(null)
    fetchedRef,   \* useRef(false)
    isMounted,    \* the flag of the load effect
    pc,           \* where load() is: "start", "fetching" or "done"
    now,          \* Date.now()
    uuids,        \* how many ids crypto.randomUUID() has given
    calls,        \* how many handler calls and clock ticks have been explored
    form          \* the state and props of the TaskForm dialog, and what it
                  \* handed to onSubmit

\* the state of useTasks and of its environment
hookVars ==
    <<tasks, loading, error, lastDeleted, fetchedRef, storage, isMounted, pc,
      now, uuids, calls, writable, last>>

vars ==
    <<tasks, loading, error, lastDeleted, fetchedRef, storage, isMounted, pc,
      now, uuids, calls, writable, last, form>>

\* the clock at mount
StartMs == 20 * DayMs

\* the id crypto.randomUUID() gives on its n-th call: no other id equals it
Uuid(n) == Id(1000 + n)

(***************************************************************************)
(* Inputs.                                                                 *)
(***************************************************************************)
\* a record as saveToLocalStorage wrote it in an earlier session
StoredRecord(n, status) ==
    Task(Id(n), Num(100), Num(2), status, Iso(StartMs - 5 * DayMs),
         IF status = "Done" THEN Iso(StartMs - 4 * DayMs) ELSE Undef)

\* a legacy record: no createdAt, no completedAt, no revenue, timeTaken 0
LegacyRecord(n, status) == Task(Id(n), Undef, Num(0), status, Undef, Undef)

\* a record whose createdAt is a string Date cannot parse
BrokenRecord(n) == Task(Id(n), BadStr, NumStr(3), "Todo", BadStr, Undef)

\* a record whose createdAt is a date in another format than toISOString's
ForeignRecord(n) ==
    Task(Id(n), NumStr(7), NaN, "Done", DateStr(StartMs - 2 * DayMs), Undef)

\* the contents of the persisted slot at mount
StoredContents ==
    <<JsonArray(<<StoredRecord(1, "Done"), StoredRecord(2, "Todo")>>),
      JsonArray(<<LegacyRecord(1, "Done"), ForeignRecord(2)>>),
      JsonArray(<<>>),
      JsonObject,
      Absent,
      Unparseable,
      JsonArray(<<StoredRecord(1, "Todo"), BrokenRecord(2)>>)>>

\* how fetch('/tasks.json') and res.json() end
FetchReject == [kind |-> "reject", isArray |-> FALSE, items |-> <<>>]
FetchNotOk == [kind |-> "notok", isArray |-> FALSE, items |-> <<>>]
FetchBadBody == [kind |-> "badbody", isArray |-> FALSE, items |-> <<>>]

FetchOutcomes ==
    {FetchReject, FetchNotOk, FetchBadBody, JsonObject, JsonArray(<<>>),
     JsonArray(<<LegacyRecord(1, "Todo"), StoredRecord(2, "Done")>>),
     JsonArray(<<BrokenRecord(1)>>)}

\* the ids updateTask and deleteTask are called with
Ids == {Id(1), Id(2)}

\* the candidates addTask is called with: Omit<Task, 'id'> & { id?: string }
Candidates ==
    <<Task(Undef, Num(50), Num(0), "Todo", Undef, Undef),
      Task(Id(1), Num(50), NaN, "Done", Iso(StartMs - DayMs), Undef),
      Task(Id(2), Num(50), Undef, "Todo", Undef, Iso(StartMs - DayMs))>>

\* the patches updateTask is called with: Partial<Task>
Patches ==
    <<[status |-> "Done"],
      [status |-> "Todo", timeTaken |-> Num(0)],
      [timeTaken |-> NaN],
      [completedAt |-> Undef],
      [completedAt |-> Iso(StartMs - DayMs)],
      [createdAt |-> Iso(StartMs - DayMs)]>>

\* the last handleSubmit did not call onSubmit
NoCall == [called |-> FALSE]

\* TaskForm as first rendered, lines 24-31, with the dialog closed; submitted
\* is the call of onSubmit the last handleSubmit made, and edits counts the
\* changes of a field since the dialog opened
FormClosed ==
    [open |-> FALSE, initial |-> Null, title |-> <<>>, revenue |-> <<>>,
     timeTaken |-> <<>>, status |-> "Todo", errors |-> <<>>,
     submitError |-> "", submitted |-> NoCall, edits |-> 0]

(***************************************************************************)
(* Construction: the first render, before the effect has run load().       *)
(***************************************************************************)
Init ==
    /\ tasks = <<>>
    /\ loading = TRUE
    /\ error = JNull
    /\ lastDeleted = Null
    /\ fetchedRef = FALSE
    /\ \E i \in 1..Len(StoredContents) : storage = StoredContents[i]
    /\ isMounted = TRUE
    /\ pc = "start"
    /\ now = StartMs
    /\ uuids = 0
    /\ calls = 0
    /\ writable \in BOOLEAN
    /\ last = [op |-> "mount"]
    /\ form = FormClosed


(***************************************************************************)
(* load(), lines 297-337.                                                  *)
(***************************************************************************)
\* catch and finally blocks without setLoading(false)
LoadCatchStillLoading ==
    /\ tasks' = IF isMounted THEN generateSalesTasks(GenCount, now) ELSE tasks
    /\ storage' =
           IF isMounted
           THEN saveToLocalStorage(storage, generateSalesTasks(GenCount, now), writable)
           ELSE storage
    /\ fetchedRef' = IF isMounted THEN TRUE ELSE fetchedRef
    /\ UNCHANGED loading

\* catch and finally blocks that do not look at isMounted
LoadCatchUnguarded ==
    /\ tasks' = generateSalesTasks(GenCount, now)
    /\ storage' = saveToLocalStorage(storage, generateSalesTasks(GenCount, now), writable)
    /\ loading' = FALSE
    /\ fetchedRef' = TRUE

\* a catch block that adopts the generated data without persisting it
LoadCatchUnsaved ==
    /\ tasks' = IF isMounted THEN generateSalesTasks(GenCount, now) ELSE tasks
    /\ loading' = IF isMounted THEN FALSE ELSE loading
    /\ fetchedRef' = IF isMounted THEN TRUE ELSE fetchedRef
    /\ UNCHANGED storage

\* the catch and finally blocks: generated data is adopted and persisted,
\* and loading ends, when the view is still mounted
LoadCatch ==
    LET dummyData == generateSalesTasks(GenCount, now)
    IN  /\ tasks' = IF isMounted THEN dummyData ELSE tasks
        /\ storage' =
               IF isMounted
               THEN saveToLocalStorage(storage, dummyData, writable)
               ELSE storage
        /\ loading' = IF isMounted THEN FALSE ELSE loading
        /\ fetchedRef' = IF isMounted THEN TRUE ELSE fetchedRef

\* load() up to its first await: the persisted slot is read; a text that
\* JSON.parse or normalizeTasks rejects lands in the catch block; with no
\* stored text, fetch('/tasks.json') is started
LoadStart ==
    /\ pc = "start"
    /\ IF storage.kind = "absent"
       THEN /\ pc' = "fetching"
            /\ UNCHANGED <<tasks, storage, loading, fetchedRef>>
       ELSE /\ pc' = "done"
            /\ LET normalized == normalizeTasks(storage, now)
               IN  IF storage.kind = "text" \/ normalized.threw
                   THEN LoadCatch
                   ELSE /\ tasks' = IF isMounted THEN normalized.list ELSE tasks
                        /\ loading' = IF isMounted THEN FALSE ELSE loading
                        /\ fetchedRef' = IF isMounted THEN TRUE ELSE fetchedRef
                        /\ UNCHANGED storage
    /\ last' = [op |-> "loadStart"]
    /\ UNCHANGED <<error, lastDeleted, isMounted, now, uuids, calls, writable, form>>

\* load() resumes when the fetch and res.json() have settled with outcome
FetchSettled(outcome) ==
    /\ pc = "fetching"
    /\ pc' = "done"
    /\ LET normalized == normalizeTasks(outcome, now)
           finalData ==
               IF Len(normalized.list) > 0
               THEN normalized.list
               ELSE generateSalesTasks(GenCount, now)
       IN  IF outcome.kind # "json" \/ normalized.threw
           THEN LoadCatch
           ELSE /\ tasks' = IF isMounted THEN finalData ELSE tasks
                /\ storage' =
                       IF isMounted
                       THEN saveToLocalStorage(storage, finalData, writable)
                       ELSE storage
                /\ loading' = IF isMounted THEN FALSE ELSE loading
                /\ fetchedRef' = IF isMounted THEN TRUE ELSE fetchedRef
    /\ last' = [op |-> "fetchSettled"]
    /\ UNCHANGED <<error, lastDeleted, isMounted, now, uuids, calls, writable, form>>

\* the cleanup of the effect: the view is torn down
Unmount ==
    /\ pc # "start"
    /\ isMounted
    /\ isMounted' = FALSE
    /\ last' = [op |-> "unmount"]
    /\ UNCHANGED <<tasks, loading, error, lastDeleted, fetchedRef, storage, pc,
                   now, uuids, calls, writable, form>>

\* time passes
Tick ==
    /\ calls < MaxCalls
    /\ calls' = calls + 1
    /\ now' = now + 1000
    /\ last' = [op |-> "tick"]
    /\ UNCHANGED <<tasks, loading, error, lastDeleted, fetchedRef, storage,
                   isMounted, pc, uuids, writable, form>>


(***************************************************************************)
(* The handlers.  Each runs to completion between two renders: the state   *)
(* updater it queues, the write to the slot and the buffer update are one  *)
(* step.                                                                   *)
(***************************************************************************)
\* a handler can be called once the effect has run and until the teardown
CanCall == pc # "start" /\ isMounted /\ calls < MaxCalls

\* the record addTask appends for the candidate, lines 364-369
NewTask(task, uuid, nowMs) ==
    LET id == Coalesce(task.id, uuid)
        timeTaken == IF LeqZero(task.timeTaken) THEN Num(1) ELSE task.timeTaken
        createdAt == Iso(nowMs)
        status == task.status
        completedAt == IF status = "Done" THEN createdAt ELSE Undef
    IN  [task EXCEPT !.id = id, !.timeTaken = timeTaken,
                     !.createdAt = createdAt, !.completedAt = completedAt]

addTask(c) ==
    /\ CanCall
    /\ calls' = calls + 1
    /\ LET task == Candidates[c]
           fresh == task.id.t \in {"undefined", "null"}
           newTasks == Append(tasks, NewTask(task, Uuid(uuids + 1), now))
       IN  /\ uuids' = IF fresh THEN uuids + 1 ELSE uuids
           /\ tasks' = newTasks
           /\ storage' = saveToLocalStorage(storage, newTasks, writable)
    /\ last' = [op |-> "addTask"]
    /\ UNCHANGED <<loading, error, lastDeleted, fetchedRef, isMounted, pc, now,
                   writable, form>>

\* { ...t, ...patch }[f]
Spread(t, patch, f) == IF f \in DOMAIN patch THEN patch[f] ELSE t[f]

\* { ...t, ...patch }
Merge(t, patch) ==
    [id |-> Spread(t, patch, "id"),
     title |-> Spread(t, patch, "title"),
     revenue |-> Spread(t, patch, "revenue"),
     timeTaken |-> Spread(t, patch, "timeTaken"),
     priority |-> Spread(t, patch, "priority"),
     status |-> Spread(t, patch, "status"),
     notes |-> Spread(t, patch, "notes"),
     createdAt |-> Spread(t, patch, "createdAt"),
     completedAt |-> Spread(t, patch, "completedAt")]

\* a first map that merges the patch into every task, whatever its id
PatchedAll(t, id, patch, nowMs) ==
    LET merged == Merge(t, patch)
    IN  IF t.status # "Done" /\ merged.status = "Done" /\ ~Truthy(merged.completedAt)
        THEN [merged EXCEPT !.completedAt = Iso(nowMs)]
        ELSE merged

\* the first map of updateTask, lines 377-384, on one task
Patched(t, id, patch, nowMs) ==
    IF t.id # id
    THEN t
    ELSE LET merged == Merge(t, patch)
         IN  IF t.status # "Done" /\ merged.status = "Done"
                /\ ~Truthy(merged.completedAt)
             THEN [merged EXCEPT !.completedAt = Iso(nowMs)]
             ELSE merged

\* patch[f]: undefined when the patch does not mention f
PatchField(patch, f) == IF f \in DOMAIN patch THEN patch[f] ELSE Undef

\* the second map of updateTask, line 385, on one task
Clamped(t, id, patch) ==
    IF t.id = id /\ LeqZero(Coalesce(PatchField(patch, "timeTaken"), t.timeTaken))
    THEN [t EXCEPT !.timeTaken = Num(1)]
    ELSE t

updateTask(id, p) ==
    /\ CanCall
    /\ calls' = calls + 1
    /\ LET patch == Patches[p]
           next == [i \in 1..Len(tasks) |-> Patched(tasks[i], id, patch, now)]
           final == [i \in 1..Len(next) |-> Clamped(next[i], id, patch)]
       IN  /\ tasks' = final
           /\ storage' = saveToLocalStorage(storage, final, writable)
    /\ last' = [op |-> "updateTask", id |-> id]
    /\ UNCHANGED <<loading, error, lastDeleted, fetchedRef, isMounted, pc, now,
                   uuids, writable, form>>

\* a find that leaves the buffer as it is when no task carries the id
FindOrKeep(list, id) ==
    IF \E i \in 1..Len(list) : list[i].id = id
    THEN list[CHOOSE i \in 1..Len(list) :
                 /\ list[i].id = id
                 /\ \A j \in 1..(i - 1) : list[j].id # id]
    ELSE lastDeleted

\* prev.find(t => t.id === id) || null
Find(list, id) ==
    IF \E i \in 1..Len(list) : list[i].id = id
    THEN list[CHOOSE i \in 1..Len(list) :
                 /\ list[i].id = id
                 /\ \A j \in 1..(i - 1) : list[j].id # id]
    ELSE Null

\* prev.filter(t => t.id !== id)
Filter(list, id) ==
    LET Keep(t) == t.id # id
    IN  SelectSeq(list, Keep)

deleteTask(id) ==
    /\ CanCall
    /\ calls' = calls + 1
    /\ LET target == Find(tasks, id)
           newTasks == Filter(tasks, id)
       IN  /\ lastDeleted' = target
           /\ tasks' = newTasks
           /\ storage' = saveToLocalStorage(storage, newTasks, writable)
    /\ last' = [op |-> "deleteTask", id |-> id, prev |-> tasks]
    /\ UNCHANGED <<loading, error, fetchedRef, isMounted, pc, now, uuids, writable, form>>

\* an undoDelete that does not empty the buffer
undoDeleteKeeps ==
    /\ CanCall
    /\ calls' = calls + 1
    /\ IF lastDeleted = Null
       THEN UNCHANGED <<tasks, storage, lastDeleted>>
       ELSE LET newTasks == Append(tasks, lastDeleted)
            IN  /\ tasks' = newTasks
                /\ storage' = saveToLocalStorage(storage, newTasks, writable)
                /\ UNCHANGED lastDeleted
    /\ last' = [op |-> "undoDelete", restored |-> lastDeleted.id]
    /\ UNCHANGED <<loading, error, fetchedRef, isMounted, pc, now, uuids, writable, form>>

undoDelete ==
    /\ CanCall
    /\ calls' = calls + 1
    /\ IF lastDeleted = Null
       THEN UNCHANGED <<tasks, storage, lastDeleted>>
       ELSE LET newTasks == Append(tasks, lastDeleted)
            IN  /\ tasks' = newTasks
                /\ storage' = saveToLocalStorage(storage, newTasks, writable)
                /\ lastDeleted' = Null
    /\ last' = [op |-> "undoDelete", restored |-> lastDeleted.id]
    /\ UNCHANGED <<loading, error, fetchedRef, isMounted, pc, now, uuids, writable, form>>

clearLastDeleted ==
    /\ CanCall
    /\ calls' = calls + 1
    /\ lastDeleted' = Null
    /\ last' = [op |-> "clearLastDeleted"]
    /\ UNCHANGED <<tasks, loading, error, fetchedRef, storage, isMounted, pc,
                   now, uuids, writable, form>>

(***************************************************************************)
(* The specification.                                                      *)
(***************************************************************************)
Next ==
    \/ LoadStart
    \/ \E outcome \in FetchOutcomes : FetchSettled(outcome)
    \/ Unmount
    \/ Tick
    \/ \E c \in 1..Len(Candidates) : addTask(c)
    \/ \E id \in Ids, p \in 1..Len(Patches) : updateTask(id, p)
    \/ \E id \in Ids : deleteTask(id)
    \/ undoDelete
    \/ clearLastDeleted

Spec == Init /\ [][Next]_vars

\* how many handler calls and clock ticks a behaviour of SpecLive holds
MaxLiveCalls == 2

NextLive ==
    \/ LoadStart
    \/ \E outcome \in FetchOutcomes : FetchSettled(outcome)
    \/ Unmount
    \/ calls < MaxLiveCalls /\ Tick
    \/ calls < MaxLiveCalls /\ \E c \in 1..Len(Candidates) : addTask(c)
    \/ calls < MaxLiveCalls /\ \E id \in Ids, p \in 1..Len(Patches) : updateTask(id, p)
    \/ calls < MaxLiveCalls /\ \E id \in Ids : deleteTask(id)
    \/ calls < MaxLiveCalls /\ undoDelete
    \/ calls < MaxLiveCalls /\ clearLastDeleted

\* the effect runs load() once the hook is mounted, and the fetch, once
\* started, resolves or rejects in the end
SpecLive ==
    /\ Init
    /\ [][NextLive]_vars
    /\ WF_pc(LoadStart)
    /\ WF_pc(\E outcome \in FetchOutcomes : FetchSettled(outcome))

(***************************************************************************)
(* TaskForm, lines 23-221.  A text (the value of an input, a title) is the *)
(* sequence of its characters.                                             *)
(***************************************************************************)
\* how many times the user changes a field while the dialog is open
MaxEdits == 3

DigitChars == <<"0", "1", "2", "3", "4", "5", "6", "7", "8", "9">>

IsDigits(s) ==
    /\ Len(s) > 0
    /\ \A i \in 1..Len(s) : \E d \in 1..10 : DigitChars[d] = s[i]

RECURSIVE DigitsValue(_)
DigitsValue(s) ==
    IF s = <<>>
    THEN 0
    ELSE 10 * DigitsValue(SubSeq(s, 1, Len(s) - 1))
             + (CHOOSE d \in 0..9 : DigitChars[d + 1] = s[Len(s)])

RECURSIVE DigitsOf(_)
DigitsOf(n) ==
    IF n < 10
    THEN <<DigitChars[n + 1]>>
    ELSE DigitsOf(n \div 10) \o <<DigitChars[(n % 10) + 1]>>

\* s.trim()
RECURSIVE Trim(_)
Trim(s) ==
    IF s = <<>> THEN s
    ELSE IF Head(s) = " " THEN Trim(Tail(s))
    ELSE IF s[Len(s)] = " " THEN Trim(SubSeq(s, 1, Len(s) - 1))
    ELSE s

\* Number(s) of a text: blank is 0, an optionally signed run of decimal
\* digits is its value, anything else NaN
NumberOfText(s) ==
    LET b == Trim(s)
    IN  IF b = <<>> THEN Num(0)
        ELSE IF IsDigits(b) THEN Num(DigitsValue(b))
        ELSE IF Head(b) = "-" /\ IsDigits(Tail(b)) THEN Num(0 - DigitsValue(Tail(b)))
        ELSE IF Head(b) = "+" /\ IsDigits(Tail(b)) THEN Num(DigitsValue(Tail(b)))
        ELSE NaN

\* String(x) of a task field
StringOf(x) ==
    CASE x.t = "number" ->
             IF x.v < 0 THEN <<"-">> \o DigitsOf(0 - x.v) ELSE DigitsOf(x.v)
      [] x.t = "NaN" -> <<"N", "a", "N">>
      [] x.t = "null" -> <<"n", "u", "l", "l">>
      [] OTHER -> <<"u", "n", "d", "e", "f", "i", "n", "e", "d">>

\* the props: the titles the list already holds, and the task being edited
TitleOld == <<"o", "l", "d">>
TitleAbc == <<"a", "b", "c">>

ExistingTitles == {TitleOld, TitleAbc}

EditedTask(revenue, timeTaken, status) ==
    [id |-> Id(1), title |-> TitleOld, revenue |-> revenue,
     timeTaken |-> timeTaken, status |-> status,
     createdAt |-> Iso(StartMs - 5 * DayMs),
     completedAt |-> IF status = "Done" THEN Iso(StartMs - 4 * DayMs) ELSE Undef]

\* initial: null for a new task; a well-formed task; a task whose revenue
\* and timeTaken are not numbers
Initials ==
    {Null, EditedTask(Num(100), Num(2), "Done"), EditedTask(NaN, Undef, "Todo")}

\* what the user types
TitleInputs ==
    {<<>>, <<" ", " ">>, <<"a", "b">>, <<" ", "a", "b", "c", " ">>,
     <<"n", "e", "w">>}
RevenueInputs == {<<" ">>, <<"a">>, <<"-", "5">>, <<"0">>, <<"1", "0">>}
TimeInputs == {<<>>, <<"a">>, <<"0">>, <<"-", "1">>, <<" ", "3">>}
StatusInputs == {"Todo", "Done"}

\* the effect of lines 33-54 when the parent opens the dialog
OpenDialog(initial) ==
    /\ ~form.open
    /\ form' =
           IF initial # Null
           THEN [open |-> TRUE, initial |-> initial, title |-> initial.title,
                 revenue |-> StringOf(initial.revenue),
                 timeTaken |-> StringOf(initial.timeTaken),
                 status |-> initial.status, errors |-> <<>>,
                 submitError |-> "", submitted |-> NoCall, edits |-> 0]
           ELSE [open |-> TRUE, initial |-> Null, title |-> <<>>,
                 revenue |-> <<>>, timeTaken |-> <<>>, status |-> "Todo",
                 errors |-> <<>>, submitError |-> "", submitted |-> NoCall,
                 edits |-> 0]
    /\ UNCHANGED hookVars

\* the onChange handlers, lines 145, 157, 169, 191
setTitle(text) ==
    /\ form.open
    /\ form.edits < MaxEdits
    /\ form' = [form EXCEPT !.title = text, !.edits = @ + 1]
    /\ UNCHANGED hookVars

setRevenue(text) ==
    /\ form.open
    /\ form.edits < MaxEdits
    /\ form' = [form EXCEPT !.revenue = text, !.edits = @ + 1]
    /\ UNCHANGED hookVars

setTimeTaken(text) ==
    /\ form.open
    /\ form.edits < MaxEdits
    /\ form' = [form EXCEPT !.timeTaken = text, !.edits = @ + 1]
    /\ UNCHANGED hookVars

setStatus(status) ==
    /\ form.open
    /\ form.edits < MaxEdits
    /\ form' = [form EXCEPT !.status = status, !.edits = @ + 1]
    /\ UNCHANGED hookVars

\* the message validate() gives for each field, "" when it gives none
TitleError(f) ==
    LET t == Trim(f.title)
    IN  IF t = <<>> THEN "Title is required"
        ELSE IF Len(t) < 3 THEN "Title must be at least 3 characters"
        ELSE IF f.initial = Null /\ t \in ExistingTitles THEN "Title already exists"
        ELSE IF f.initial # Null /\ t # f.initial.title /\ t \in ExistingTitles
             THEN "Title already exists"
        ELSE ""

RevenueError(f) ==
    LET revNum == NumberOfText(f.revenue)
    IN  IF f.revenue = <<>> \/ Trim(f.revenue) = <<>> THEN "Revenue is required"
        ELSE IF revNum = NaN THEN "Revenue must be a number"
        ELSE IF revNum.v < 0 THEN "Revenue cannot be negative"
        ELSE ""

\* the time check of a form that lets 0 and negative times through
TimeErrorLax(f) ==
    LET timeNum == NumberOfText(f.timeTaken)
    IN  IF f.timeTaken = <<>> \/ Trim(f.timeTaken) = <<>> THEN "Time is required"
        ELSE IF timeNum = NaN THEN "Time must be a number"
        ELSE ""

TimeError(f) ==
    LET timeNum == NumberOfText(f.timeTaken)
    IN  IF f.timeTaken = <<>> \/ Trim(f.timeTaken) = <<>> THEN "Time is required"
        ELSE IF timeNum = NaN THEN "Time must be a number"
        ELSE IF timeNum.v <= 0 THEN "Time must be greater than 0"
        ELSE ""

\* newErrors as validate() leaves it, lines 57-88
validate(f) ==
    LET message ==
            [field \in {"title", "revenue", "timeTaken"} |->
                CASE field = "title" -> TitleError(f)
                  [] field = "revenue" -> RevenueError(f)
                  [] field = "timeTaken" -> TimeError(f)]
    IN  [field \in {x \in DOMAIN message : message[x] # ""} |-> message[field]]

\* the candidate handleSubmit builds, lines 102-115
FormTask(f, nowMs) ==
    [id |-> IF f.initial # Null /\ Truthy(f.initial.id) THEN f.initial.id ELSE Undef,
     title |-> Trim(f.title),
     revenue |-> NumberOfText(f.revenue),
     timeTaken |-> NumberOfText(f.timeTaken),
     priority |-> "Medium",
     status |-> f.status,
     notes |-> Undef,
     createdAt |->
         IF f.initial # Null /\ Truthy(f.initial.createdAt)
         THEN f.initial.createdAt
         ELSE Iso(nowMs),
     completedAt |->
         IF f.initial # Null /\ Truthy(f.initial.completedAt)
         THEN f.initial.completedAt
         ELSE IF f.status = "Done" THEN Iso(nowMs) ELSE Undef]

\* handleSubmit, lines 94-123; onSubmit is the parent's callback, which
\* returns or throws
handleSubmit(onSubmitThrows) ==
    /\ form.open
    /\ LET newErrors == validate(form)
           task == FormTask(form, now)
       IN  form' =
               IF DOMAIN newErrors # {}
               THEN [form EXCEPT !.submitError = "", !.errors = newErrors,
                                 !.submitted = NoCall]
               ELSE IF onSubmitThrows
               THEN [form EXCEPT !.errors = newErrors,
                                 !.submitted = [called |-> TRUE, task |-> task],
                                 !.submitError = "Failed to save task. Please try again."]
               ELSE [form EXCEPT !.errors = newErrors,
                                 !.submitted = [called |-> TRUE, task |-> task],
                                 !.submitError = "",
                                 !.open = FALSE]
    /\ UNCHANGED hookVars

\* handleClose, lines 125-129
handleClose ==
    /\ form.open
    /\ form' = [form EXCEPT !.errors = <<>>, !.submitError = "", !.open = FALSE]
    /\ UNCHANGED hookVars

\* the form on its own: the hook's state stays as constructed
InitForm ==
    /\ tasks = <<>>
    /\ loading = TRUE
    /\ error = JNull
    /\ lastDeleted = Null
    /\ fetchedRef = FALSE
    /\ storage = Absent
    /\ isMounted = TRUE
    /\ pc = "start"
    /\ now = StartMs
    /\ uuids = 0
    /\ calls = 0
    /\ writable = TRUE
    /\ last = [op |-> "mount"]
    /\ form = FormClosed

NextForm ==
    \/ \E initial \in Initials : OpenDialog(initial)
    \/ \E text \in TitleInputs : setTitle(text)
    \/ \E text \in RevenueInputs : setRevenue(text)
    \/ \E text \in TimeInputs : setTimeTaken(text)
    \/ \E status \in StatusInputs : setStatus(status)
    \/ \E onSubmitThrows \in BOOLEAN : handleSubmit(onSubmitThrows)
    \/ handleClose

SpecForm == InitForm /\ [][NextForm]_vars



(***************************************************************************)
(* Properties.                                                             *)
(***************************************************************************)
\* the records of list, and of the buffer buf, that carry the id
RecordsOf(list, buf, id) ==
    {list[i] : i \in {j \in 1..Len(list) : list[j].id = id}}
        \cup (IF buf # Null /\ buf.id = id THEN {buf} ELSE {})

\* the ids of the records of list
IdsOf(list) == {list[i].id : i \in 1..Len(list)}

\* C1: in every reachable state the task list holds exactly one task per
\* id: no two positions of the list carry the same id.
C1_OneTaskPerId ==
    \A i, j \in 1..Len(tasks) : i # j => tasks[i].id # tasks[j].id

\* C2: in every reachable state every task of the list has a timeTaken
\* that is a number greater than 0.
C2_TimeTakenPositive ==
    \A i \in 1..Len(tasks) :
        tasks[i].timeTaken.t = "number" /\ tasks[i].timeTaken.v > 0

\* C3: after any addTask or updateTask call, every task of the list whose
\* status is Done has completedAt set.
C3_DoneHasCompletedAt ==
    last.op \in {"addTask", "updateTask"} =>
        \A i \in 1..Len(tasks) :
            tasks[i].status = "Done" => tasks[i].completedAt # Undef

\* C4: completedAt is set once: an updateTask call leaves the completedAt
\* of every task that already has one as it is, whatever the patch.
C4_CompletedAtSetOnce ==
    [][last'.op = "updateTask" =>
          \A i \in 1..Len(tasks) :
              tasks[i].completedAt # Undef =>
                  tasks'[i].completedAt = tasks[i].completedAt]_vars

\* C5: createdAt is fixed at creation: across updateTask, deleteTask and
\* undoDelete, the createdAt values recorded for an id (in the list and in
\* the undo buffer) stay the same for as long as the id has a record.
C5_CreatedAtFixed ==
    [][last'.op \in {"updateTask", "deleteTask", "undoDelete"} =>
          \A id \in IdsOf(tasks) \cup {lastDeleted.id} :
              LET before == {r.createdAt : r \in RecordsOf(tasks, lastDeleted, id)}
                  after == {r.createdAt : r \in RecordsOf(tasks', lastDeleted', id)}
              IN  after # {} => after = before]_vars


\* how many positions of list hold the record r
Count(list, r) == Cardinality({i \in 1..Len(list) : list[i] = r})

\* a and b hold the same records, each as many times (position aside)
SameRecords(a, b) ==
    /\ Len(a) = Len(b)
    /\ \A i \in 1..Len(a) : Count(a, a[i]) = Count(b, a[i])

\* C6: deleteTask(id) for an id of the list, followed immediately by
\* undoDelete(), gives a list of the original length holding the same
\* records, and (the write succeeding) the persisted slot holds a list of
\* the original length.
C6_DeleteUndoRoundTrip ==
    [][(/\ last.op = "deleteTask"
        /\ last.id \in IdsOf(last.prev)
        /\ last'.op = "undoDelete") =>
          /\ SameRecords(tasks', last.prev)
          /\ writable =>
                 /\ storage'.kind = "json"
                 /\ storage'.isArray
                 /\ Len(storage'.items) = Len(last.prev)]_vars

\* the positions of list whose record carries the id
Hits(list, id) == {i \in 1..Len(list) : list[i].id = id}

\* C7: deleteTask(id) overwrites the one-slot undo buffer: afterwards the
\* buffer holds the (first) record that carried the id before the call, or
\* null when no record did, in which case the list is unchanged; whatever
\* was buffered before is gone, so after two deletes only the second
\* record is left to restore; and the list keeps the records with other
\* ids, in their order.
C7_DeleteOverwritesBuffer ==
    [][last'.op = "deleteTask" =>
          LET id == last'.id
              hits == Hits(tasks, id)
          IN  /\ hits = {} => lastDeleted' = Null /\ tasks' = tasks
              /\ hits # {} =>
                     /\ lastDeleted' = tasks[CHOOSE i \in hits : \A j \in hits : i <= j]
                     /\ (last.op = "deleteTask" /\ lastDeleted # Null) =>
                            lastDeleted' # lastDeleted
              /\ Len(tasks') = Len(tasks) - Cardinality(hits)
              /\ \A i \in 1..Len(tasks) :
                     i \notin hits =>
                         tasks'[i - Cardinality({j \in hits : j < i})] = tasks[i]]_vars

\* C7 happens: a second effective delete in a row, on the generated list,
\* has left its record in the buffer and 48 tasks in their order.
C7_Witness ==
    /\ last.op = "deleteTask"
    /\ Len(last.prev) = GenCount - 1
    /\ lastDeleted # Null
    /\ lastDeleted.id = last.id
    /\ Len(tasks) = GenCount - 2

\* C8: undoDelete with a record in the buffer appends that record as the
\* last element of the list, leaves the others where they were and empties
\* the buffer; with an empty buffer it changes neither the list, the buffer
\* nor the persisted slot.
C8_UndoAppendsOnce ==
    [][last'.op = "undoDelete" =>
          IF lastDeleted # Null
          THEN /\ Len(tasks') = Len(tasks) + 1
               /\ tasks'[Len(tasks')] = lastDeleted
               /\ \A i \in 1..Len(tasks) : tasks'[i] = tasks[i]
               /\ lastDeleted' = Null
          ELSE /\ tasks' = tasks
               /\ lastDeleted' = Null
               /\ storage' = storage]_vars

\* C8 happens: undoDelete has put the record of the buffer back at the end
\* of a list that held others, and the buffer is empty.
C8_Witness ==
    /\ last.op = "undoDelete"
    /\ last.restored # JNull
    /\ lastDeleted = Null
    /\ Len(tasks) >= 2
    /\ tasks[Len(tasks)].id = last.restored

\* C9: once the load has completed with the view still active, the task
\* list is not empty, whatever the persisted slot held and however the
\* fetch ended.
C9_LoadNeverEmpty ==
    (last.op \in {"loadStart", "fetchSettled"} /\ pc = "done" /\ isMounted) =>
        Len(tasks) > 0

\* C10: the persisted slot is adopted, normalized, if and only if it is
\* present and parseable; in every other case the seed fetch is attempted
\* next; the fetched list is adopted and persisted when its normalized list
\* is not empty, and the generated batch is adopted only after the fetch
\* has failed or yielded an empty list.
C10_LoadTierOrder ==
    [][/\ last'.op = "loadStart" =>
              IF storage.kind = "json"
              THEN pc' = "done" /\ tasks' = normalizeTasks(storage, now).list
              ELSE pc' = "fetching" /\ tasks' = tasks
       /\ \A o \in FetchOutcomes :
              (FetchSettled(o) /\ isMounted) =>
                  LET n == normalizeTasks(o, now)
                  IN  IF o.kind = "json" /\ Len(n.list) > 0
                      THEN /\ tasks' = n.list
                           /\ writable => storage' = Stringify(n.list)
                      ELSE tasks' = generateSalesTasks(GenCount, now)]_vars

\* the fetch outcomes C11 is about: the fetch rejects, the response is not
\* OK, the body does not parse, or the normalized list is empty
FailedOrEmpty ==
    {o \in FetchOutcomes :
        \/ o.kind # "json"
        \/ ~normalizeTasks(o, StartMs).threw /\ Len(normalizeTasks(o, StartMs).list) = 0}

\* C11: with an empty persisted slot, when the seed fetch fails or yields
\* an empty normalized list and the view is still active, the load leaves
\* the generated batch of exactly 50 tasks as the task list, whatever the
\* list held while the fetch was pending, and (the write succeeding) the
\* persisted slot holds the serialization of that batch.
C11_FetchFailureGenerates ==
    [][(pc = "fetching" /\ isMounted) =>
          \A o \in FailedOrEmpty :
              FetchSettled(o) =>
                  /\ Len(tasks') = 50
                  /\ tasks' = generateSalesTasks(GenCount, now)
                  /\ loading' = FALSE
                  /\ writable => storage' = Stringify(tasks')]_vars

\* C11 happens: the fetch has settled on a mounted view whose slot was
\* empty, and the 50 generated tasks are in the list and in the slot.
C11_Witness ==
    /\ last.op = "fetchSettled"
    /\ isMounted
    /\ writable
    /\ Len(tasks) = GenCount
    /\ tasks = generateSalesTasks(GenCount, now)
    /\ storage = Stringify(tasks)

\* C12: cancellation.  When the view was torn down while the fetch was
\* pending, the rest of load() changes nothing, however the fetch ends:
\* the task list, the loading flag, the persisted slot (and the error
\* field, the undo buffer and fetchedRef) are as they were at teardown.
C12_TornDownLoadChangesNothing ==
    [][(pc = "fetching" /\ ~isMounted) =>
          \A o \in FetchOutcomes :
              FetchSettled(o) =>
                  UNCHANGED <<tasks, loading, storage, error, lastDeleted, fetchedRef>>]_vars

\* C12 happens: the fetch has settled after the teardown of a view whose
\* list a handler had filled; the flag still says loading.
C12_Witness ==
    /\ last.op = "fetchSettled"
    /\ ~isMounted
    /\ pc = "done"
    /\ loading = TRUE
    /\ Len(tasks) = 1
    /\ storage = IF writable THEN Stringify(tasks) ELSE Absent

\* the step just taken called saveToLocalStorage: addTask, updateTask and
\* deleteTask always do, undoDelete when the buffer holds a record, and
\* load() on a mounted view when it adopts seed or generated data
Saves ==
    \/ last'.op \in {"addTask", "updateTask", "deleteTask"}
    \/ last'.op = "undoDelete" /\ lastDeleted # Null
    \/ last'.op = "fetchSettled" /\ isMounted
    \/ /\ last'.op = "loadStart"
       /\ storage.kind = "text" \/ normalizeTasks(storage, now).threw

\* C13: persistence mirror.  Immediately after addTask, updateTask,
\* deleteTask, undoDelete and a load that adopts seed or generated data,
\* when the write succeeds, the persisted slot holds the serialization of
\* exactly the task list the operation produced, whether the fetch of the
\* load is still pending or not.
C13_PersistenceMirror ==
    [][(Saves /\ writable) => storage' = Stringify(tasks')]_vars

\* C13 happens: a handler has run while the fetch was pending, and the
\* slot holds the list it left.
C13_Witness ==
    /\ last.op \in {"addTask", "undoDelete"}
    /\ pc = "fetching"
    /\ writable
    /\ Len(tasks) = 2
    /\ storage = Stringify(tasks)

\* the list and the buffer the step just taken leaves when its write
\* succeeds: what the updater of the handler returns, or what load() adopts
AsAfterSuccessfulWrite ==
    CASE last'.op = "addTask" ->
             /\ \E c \in 1..Len(Candidates) :
                    tasks' = Append(tasks, NewTask(Candidates[c], Uuid(uuids + 1), now))
             /\ lastDeleted' = lastDeleted
      [] last'.op = "updateTask" ->
             /\ \E p \in 1..Len(Patches) :
                    tasks' = [i \in 1..Len(tasks) |->
                                 Clamped(Patched(tasks[i], last'.id, Patches[p], now),
                                         last'.id, Patches[p])]
             /\ lastDeleted' = lastDeleted
      [] last'.op = "deleteTask" ->
             /\ tasks' = Filter(tasks, last'.id)
             /\ lastDeleted' = Find(tasks, last'.id)
      [] last'.op = "undoDelete" ->
             /\ tasks' = Append(tasks, lastDeleted)
             /\ lastDeleted' = Null
      [] last'.op = "fetchSettled" ->
             /\ \/ tasks' = generateSalesTasks(GenCount, now)
                \/ \E o \in FetchOutcomes :
                       /\ o.kind = "json"
                       /\ Len(normalizeTasks(o, now).list) > 0
                       /\ tasks' = normalizeTasks(o, now).list
             /\ lastDeleted' = lastDeleted
      [] last'.op = "loadStart" ->
             /\ tasks' = generateSalesTasks(GenCount, now)
             /\ lastDeleted' = lastDeleted
      [] OTHER -> FALSE

\* C14: a write to the persisted slot that fails, during addTask,
\* updateTask, deleteTask, undoDelete or load, is swallowed: the task list
\* and the undo buffer end as they do when the write succeeds, the slot
\* keeps its previous content, the error field stays null and the loading
\* flag ends as the load leaves it.
C14_WriteFailureSwallowed ==
    [][(Saves /\ ~writable) =>
          /\ AsAfterSuccessfulWrite
          /\ storage' = storage
          /\ error' = JNull
          /\ last'.op \in {"fetchSettled", "loadStart"} => loading' = FALSE]_vars

\* C14 happens: deleteTask has removed a task of the loaded list and
\* buffered it while the slot, which takes no write, still holds the list
\* of the earlier session.
C14_Witness ==
    /\ last.op = "deleteTask"
    /\ ~writable
    /\ lastDeleted # Null
    /\ Len(tasks) = 1
    /\ storage = StoredContents[1]
    /\ error = JNull

\* C15: the Normalizer never fails and always repairs: for every raw list,
\* records with an absent or unparseable createdAt or a missing or
\* non-positive timeTaken included, normalizeTasks returns without raising
\* a list of the same length whose records all have a createdAt and a
\* timeTaken > 0; so a load from a persisted list with one malformed
\* record adopts the whole list, repaired.
C15_NormalizerRepairs ==
    [][(last'.op = "loadStart" /\ storage.kind = "json" /\ storage.isArray) =>
          LET n == normalizeTasks(storage, now)
          IN  /\ ~n.threw
              /\ Len(n.list) = Len(storage.items)
              /\ \A i \in 1..Len(n.list) :
                     /\ n.list[i].createdAt.t = "iso"
                     /\ GtZero(n.list[i].timeTaken)
              /\ tasks' = n.list]_vars

\* C16: the Normalizer maps an absent or non-numeric revenue to 0: a raw
\* record whose revenue is missing or does not coerce to a number gives a
\* task whose revenue is exactly 0, so every task the load adopts from the
\* persisted slot has a number for revenue.
C16_RevenueDefaultsToZero ==
    [][(/\ last'.op = "loadStart"
        /\ storage.kind = "json"
        /\ ~normalizeTasks(storage, now).threw) =>
          /\ Len(tasks') = Len(storage.items)
          /\ \A i \in 1..Len(tasks') :
                 /\ tasks'[i].revenue.t = "number"
                 /\ ToNumber(storage.items[i].revenue) = NaN =>
                        tasks'[i].revenue = Num(0)]_vars

\* C17: updateTask(id, patch) with an id no task carries leaves the task
\* list (same records, same order) and the undo buffer as they were; with
\* an id some task carries, every task with another id is left as it was,
\* where it was, and the list keeps its length; the buffer is untouched.
C17_UpdateFrame ==
    [][last'.op = "updateTask" =>
          /\ last'.id \notin IdsOf(tasks) => tasks' = tasks
          /\ Len(tasks') = Len(tasks)
          /\ \A i \in 1..Len(tasks) :
                 IF tasks[i].id # last'.id
                 THEN tasks'[i] = tasks[i]
                 ELSE tasks'[i].id = tasks[i].id
          /\ lastDeleted' = lastDeleted]_vars

\* C17 happens: updateTask was called with the id of the task deleteTask
\* had just removed; the other task and the buffer are as they were.
C17_Witness ==
    /\ last.op = "updateTask"
    /\ last.id \notin IdsOf(tasks)
    /\ Len(tasks) = 1
    /\ lastDeleted # Null
    /\ lastDeleted.id = last.id

\* the conditions on the fields of the form f: the trimmed title is not
\* empty, has 3 characters or more and is not an existing title (the
\* unchanged title of the edited task is allowed); revenue is a number
\* >= 0; timeTaken is a number > 0
TitlePasses(f) ==
    LET t == Trim(f.title)
    IN  /\ Len(t) >= 3
        /\ t \in ExistingTitles => f.initial # Null /\ t = f.initial.title

RevenuePasses(f) ==
    /\ Trim(f.revenue) # <<>>
    /\ NumberOfText(f.revenue).t = "number"
    /\ NumberOfText(f.revenue).v >= 0

TimePasses(f) ==
    /\ Trim(f.timeTaken) # <<>>
    /\ NumberOfText(f.timeTaken).t = "number"
    /\ NumberOfText(f.timeTaken).v > 0

FailingFields(f) ==
    (IF TitlePasses(f) THEN {} ELSE {"title"})
        \cup (IF RevenuePasses(f) THEN {} ELSE {"revenue"})
        \cup (IF TimePasses(f) THEN {} ELSE {"timeTaken"})

\* C18: the form is a validation gate.  handleSubmit calls onSubmit, and
\* then onClose, exactly when the title, revenue and timeTaken fields pass;
\* when one fails, onSubmit is not called, the dialog stays open and the
\* error map has a message for each failing field and no other; every
\* candidate handed to onSubmit has a number > 0 for timeTaken and a
\* number >= 0 for revenue.
C18_FormIsValidationGate ==
    [][\A onSubmitThrows \in BOOLEAN :
          handleSubmit(onSubmitThrows) =>
              /\ form'.submitted.called <=> FailingFields(form) = {}
              /\ ~form'.open => form'.submitted.called
              /\ DOMAIN form'.errors = FailingFields(form)
              /\ \A field \in DOMAIN form'.errors : form'.errors[field] # ""
              /\ form'.submitted.called =>
                     /\ form'.submitted.task.timeTaken.t = "number"
                     /\ form'.submitted.task.timeTaken.v > 0
                     /\ form'.submitted.task.revenue.t = "number"
                     /\ form'.submitted.task.revenue.v >= 0
                     /\ form'.open = onSubmitThrows]_vars

\* C18 happens: a new task whose three fields the user filled in has been
\* handed to onSubmit and the dialog is closed.
C18_Witness ==
    /\ form.submitted.called
    /\ ~form.open
    /\ form.initial = Null
    /\ form.submitted.task.title = <<"n", "e", "w">>
    /\ form.submitted.task.timeTaken = Num(3)
    /\ form.errors = <<>>

\* C19: no user mutation is lost to the initial load: the tasks that
\* addTask (and updateTask, undoDelete) left in the list while the seed
\* fetch was pending are still in the list, and (the write succeeding) in
\* the persisted slot, once the load has completed, however the fetch
\* ended.
C19_NoMutationLostToLoad ==
    [][\A o \in FetchOutcomes :
          (FetchSettled(o) /\ isMounted) =>
              \A i \in 1..Len(tasks) :
                  /\ \E j \in 1..Len(tasks') : tasks'[j] = tasks[i]
                  /\ writable =>
                         \E j \in 1..Len(storage'.items) :
                             storage'.items[j] = JsonRecord(tasks[i])]_vars

\* C20: load liveness.  loading starts true; when the view stays active
\* (and the fetch settles, which SpecLive grants), loading becomes false in
\* the end, whichever path the load takes; once false it never is true
\* again; and no step other than a step of load() changes it.
C20_LoadingEnds ==
    /\ loading = TRUE
    /\ ([]isMounted) => <>(loading = FALSE)
    /\ [][loading = FALSE => loading' = FALSE]_vars
    /\ [][last'.op \notin {"loadStart", "fetchSettled"} => loading' = loading]_vars

\* C20 happens: on a view still active the fetch has settled, the load is
\* over and loading is false, after a handler ran while it was true.
C20_Witness ==
    /\ last.op = "fetchSettled"
    /\ isMounted
    /\ pc = "done"
    /\ loading = FALSE
    /\ calls > 0

====
